---- MODULE Spec2Model ----
(***************************************************************************)
(* A model of newton_installer.py: the frame codec (fcs_calc, send_frame,  *)
(* recv_frame), the chunking of a package, and the docking session that    *)
(* run_installer drives over the serial port.                              *)
(***************************************************************************)
EXTENDS Integers, Sequences, FiniteSets, TLC

VARIABLES
  \* the codec exercised on its own
  cphase,     \* "idle", "sent", "delivered", "received"; "fcs", "fcsdone"
  chead,      \* send_frame's head argument
  cinfo,      \* send_frame's info argument (<<>> for None)
  cwire,      \* the bytes send_frame wrote to the port
  cnoise,     \* the bytes that precede the frame in the inbound stream
  cedit,      \* the single byte replaced in transit: [pos, val], pos 0 for none
  cstream,    \* the inbound stream recv_frame reads
  cres,       \* recv_frame's result on cstream
  cstray,     \* bytes put into the stream after an escape byte: [pos, bytes]
  \* fcs_calc exercised on its own
  fword,      \* fcs_calc's fcs_word argument
  foctet,     \* fcs_calc's octet argument
  fout,       \* fcs_calc's result, -1 before the call
  \* the chunk loop of run_installer exercised on its own
  kdata,      \* data: the bytes read from the package file
  ki,         \* i: the offset of the next chunk
  koffs,      \* the offsets of the chunks sent so far
  kchunks,    \* the chunks passed to send_lt_frame so far
  kdone,      \* the chunk loop has ended
  \* the installer object and its worker thread
  workers,    \* the run_installer threads started and not ended
  port,       \* self.port: "none", "open" or "closed"
  lt_seq_no,  \* self.lt_seq_no
  file_list,  \* self.file_list: the queued packages, each by its length in bytes
  start_btn,  \* the state of self.start_btn: "normal" or "disabled"
  pc,         \* where the worker thread is in run_installer; "idle": none started
  step,       \* the part of run_installer the worker is in
  recv,       \* the local recv: the last result of recv_frame
  seq,        \* wait_la_frame's argument
  files,      \* the list the for loop of line 212 iterates over
  fidx,       \* how many of its packages the loop has taken
  f_len,      \* f_len of the package being uploaded
  i,          \* the chunk loop's offset i
  progress,   \* self.progress['value'], as num / den
  err,        \* the exception that ended the session: "none" if none
  \* what an observer of the port records
  lastw,      \* the last frame written to the port
  lastlt,     \* the header of the last frame send_lt_frame wrote
  unacked,    \* frames written by send_lt_frame since wait_la_frame last returned
  nacked,     \* returns of wait_la_frame in this session
  startseq,   \* lt_seq_no when the session started
  pend,       \* sequence byte of a dock frame read in wait_la_frame and not answered, or -1
  sq,         \* the last sequenced frame written: its number, payload and package
  owed,       \* dock frames read since the request, less the answers written
  rdin        \* where recv was read: the loop and the returns of wait_la_frame so far

fvars == <<fword, foctet, fout>>

cvars == <<cphase, chead, cinfo, cwire, cnoise, cedit, cstream, cres, cstray, fvars>>

kvars == <<kdata, ki, koffs, kchunks, kdone>>

objv == <<port, lt_seq_no, file_list, start_btn, workers>>

loopv == <<files, fidx, f_len, i, progress>>

obsv == <<lastw, lastlt, unacked, nacked, startseq, pend, sq, owed, rdin>>

svars == <<objv, pc, step, recv, seq, loopv, err, obsv>>

vars == <<cvars, kvars, svars>>

(***************************************************************************)
(* Protocol constants.                                                     *)
(***************************************************************************)
MAX_INFO_LEN == 256

FRAME_START == <<22, 16, 2>>

FRAME_END == <<16, 3>>

LR_FRAME ==
  <<23, 1, 2, 1, 6, 1, 0, 0, 0, 0, 255, 2, 1, 2, 3, 1, 1, 4, 2, 64, 0, 8, 1, 3>>

\* Python's None and a returned bytearray, as recv_frame returns them.
None == [ok |-> FALSE, data |-> <<>>]

Some(d) == [ok |-> TRUE, data |-> d]

\* Python truthiness of a recv_frame result: None and an empty bytearray are falsy.
TruthyMut(r) == TRUE

Truthy(r) == r.ok /\ r.data # <<>>

\* The codec and the chunk loop before they are exercised.
NoEdit == [pos |-> 0, val |-> 0]

NoStray == [pos |-> 0, bytes |-> <<>>]

FcsIdle == fword = 0 /\ foctet = 0 /\ fout = -1

CodecIdle ==
  /\ chead = <<>>
  /\ cinfo = <<>>
  /\ cphase = "idle"
  /\ cwire = <<>>
  /\ cnoise = <<>>
  /\ cedit = NoEdit
  /\ cstream = <<>>
  /\ cres = [ret |-> None, scan |-> 0, next |-> 1]
  /\ cstray = NoStray
  /\ FcsIdle

ChunkIdle ==
  /\ kdata = <<>>
  /\ ki = 0
  /\ koffs = <<>>
  /\ kchunks = <<>>
  /\ kdone = FALSE

\* A frame as an observer of the port sees it: the header bytes and what
\* the payload is (its command string and its numbers; cmd "" for no payload).
NoInfo == [cmd |-> "", args |-> <<>>]

NoFrame == [head |-> <<>>, info |-> NoInfo]

\* No sequenced frame written yet, and no frame read yet.
NoSeqFrame == [n |-> 0, cmd |-> "", args |-> <<>>, pkg |-> 0]

NoRead == [at |-> "none", n |-> 0]

\* The installer after __init__ (lines 23-28), no worker thread started.
SessionIdle ==
  /\ port = "none"
  /\ lt_seq_no = 0
  /\ file_list = <<>>
  /\ start_btn = "normal"
  /\ pc = "idle"
  /\ step = "none"
  /\ recv = None
  /\ seq = 0
  /\ files = <<>>
  /\ fidx = 0
  /\ f_len = 0
  /\ i = 0
  /\ progress = [num |-> 0, den |-> 1]
  /\ err = "none"
  /\ lastw = NoFrame
  /\ lastlt = <<>>
  /\ unacked = 0
  /\ nacked = 0
  /\ startseq = 0
  /\ pend = -1
  /\ sq = NoSeqFrame
  /\ owed = 0
  /\ rdin = NoRead
  /\ workers = 0

(***************************************************************************)
(* Bounds of the model.                                                    *)
(***************************************************************************)
MaxHead == 2

MaxInfo == 1

MaxNoise == 2

\* The longest package the chunk loop is run on, on its own.
MaxPkgLen == 520

\* The most packages add_files queues.
MaxFiles == 2

\* The length of the largest package queued: 251 chunks.
BigPkgLen == 64256

\* Byte values the header of a frame is drawn from: the escape byte, the
\* terminator, the two other start-marker bytes and an ordinary byte.
HeadBytes == {2, 3, 16, 22, 65}

InfoBytes == {16, 65}

NoiseBytes == {2, 16, 22, 65}

\* Values a corrupted byte is replaced with.
CorruptBytes == {0, 3, 16, 22}

RECURSIVE SeqsUpTo(_, _)
SeqsUpTo(S, n) ==
  IF n = 0 THEN {<<>>}
  ELSE LET shorter == SeqsUpTo(S, n - 1)
       IN shorter \cup {Append(s, b) : s \in {t \in shorter : Len(t) = n - 1}, b \in S}

(***************************************************************************)
(* fcs_calc: the bit-serial checksum update.                               *)
(***************************************************************************)
\* Bitwise exclusive or of two naturals. (The recursions of the codec are
\* functions, so that every argument is a value when the body is evaluated.)
Xor[a \in Nat, b \in Nat] ==
  IF a = 0 THEN b
  ELSE IF b = 0 THEN a
  ELSE (((a % 2) + (b % 2)) % 2) + (2 * Xor[a \div 2, b \div 2])

Pow2(k) == CASE k = 0 -> 1 [] k = 1 -> 2 [] k = 2 -> 4 [] k = 3 -> 8
             [] k = 4 -> 16 [] k = 5 -> 32 [] k = 6 -> 64 [] OTHER -> 128

\* One pass of the loop body, for bit number k (the loop variable _).
FcsBitMut(fcs_word, octet, k) ==
  IF (((fcs_word % 256) % 2) = 1) # (((octet \div Pow2(7 - k)) % 2) # 0)
  THEN Xor[fcs_word \div 2, 40961]
  ELSE fcs_word \div 2

FcsBit(fcs_word, octet, k) ==
  IF (((fcs_word % 256) % 2) = 1) # (((octet \div Pow2(k)) % 2) # 0)
  THEN Xor[fcs_word \div 2, 40961]
  ELSE fcs_word \div 2

FcsLoop[k \in 0..8, fcs_word \in Nat, octet \in Nat] ==
  IF k = 8 THEN fcs_word ELSE FcsLoop[k + 1, FcsBit(fcs_word, octet, k), octet]

fcs_calc(fcs_word, octet) == FcsLoop[0, fcs_word, octet]

(***************************************************************************)
(* send_frame: the bytes it writes to the port, in order.                  *)
(***************************************************************************)
\* What the loop body writes for one byte b: the byte, doubled when it is 0x10.
WriteByteMut(b) == <<b>>

WriteByte(b) == IF b = 16 THEN <<b, 16>> ELSE <<b>>

WriteBytes[s \in Seq(Nat)] ==
  IF s = <<>> THEN <<>> ELSE WriteByte(Head(s)) \o WriteBytes[Tail(s)]

\* The checksum after the bytes of s, in order.
FcsOver[fcs_word \in Nat, s \in Seq(Nat)] ==
  IF s = <<>> THEN fcs_word ELSE FcsOver[fcs_calc(fcs_word, Head(s)), Tail(s)]

send_frame(head, info) ==
  LET afterHead == FcsOver[0, head]
      afterInfo == IF info # <<>> THEN FcsOver[afterHead, info] ELSE afterHead
      fcs_word == fcs_calc(afterInfo, FRAME_END[2])
  IN FRAME_START \o WriteBytes[head]
       \o (IF info # <<>> THEN WriteBytes[info] ELSE <<>>)
       \o FRAME_END \o <<fcs_word % 256, fcs_word \div 256>>

(***************************************************************************)
(* recv_frame, reading the stream s from index 1; a read past the end of s *)
(* is port.read returning no byte.                                         *)
(***************************************************************************)
\* The start-marker scan: the index of the first byte after the scan, or 0
\* when the stream ends first.
ScanStart[s \in Seq(Nat), pos \in Nat, state \in 0..3] ==
  IF state = 3 THEN pos
  ELSE IF pos > Len(s) THEN 0
  ELSE LET b == s[pos]
       IN IF state = 0 /\ b = 22 THEN ScanStart[s, pos + 1, 1]
          ELSE IF state = 1 /\ b = 16 THEN ScanStart[s, pos + 1, 2]
          ELSE IF state = 2 /\ b = 2 THEN ScanStart[s, pos + 1, 3]
          ELSE ScanStart[s, pos + 1, 0]

\* The body loop: [ok, pos, fcs, data], ok FALSE when the stream ends first.
Bytes == Seq(Nat)

\* The decoder's state after a byte read in state 1 that is neither 0x10 nor
\* 0x03 (lines 130-137 have no branch for it: state is left as it is).
AfterStrayMut(val) == 0

AfterStray(val) == 1

DecodeBody[s \in Bytes, pos \in Nat, state \in 0..2, fcs_word \in Nat, frame_data \in Bytes] ==
  IF state = 2 THEN [ok |-> TRUE, pos |-> pos, fcs |-> fcs_word, data |-> frame_data]
  ELSE IF pos > Len(s)
  THEN [ok |-> FALSE, pos |-> pos, fcs |-> fcs_word, data |-> frame_data]
  ELSE LET val == s[pos]
       IN IF state = 0
          THEN IF val = 16 THEN DecodeBody[s, pos + 1, 1, fcs_word, frame_data]
               ELSE DecodeBody[s, pos + 1, 0, fcs_calc(fcs_word, val),
                               Append(frame_data, val)]
          ELSE IF val = 16
               THEN DecodeBody[s, pos + 1, 0, fcs_calc(fcs_word, val),
                               Append(frame_data, val)]
               ELSE IF val = 3
               THEN DecodeBody[s, pos + 1, 2, fcs_calc(fcs_word, val), frame_data]
               ELSE DecodeBody[s, pos + 1, AfterStray(val), fcs_word, frame_data]

\* The checksum comparison of lines 139-143.
FcsMatchesMut(fcs_word, lo, hi) == TRUE

FcsMatches(fcs_word, lo, hi) == ~((fcs_word % 256 # lo) \/ (fcs_word \div 256 # hi))

\* recv_frame's result with what it consumed: ret is None or the frame,
\* scan the index after the start-marker scan (0: none found), next the
\* index of the first byte it has not read.
recv_frame_at(s) ==
  LET p == ScanStart[s, 1, 0]
  IN IF p = 0 THEN [ret |-> None, scan |-> 0, next |-> Len(s) + 1]
     ELSE LET b == DecodeBody[s, p, 0, 0, <<>>]
          IN IF ~b.ok THEN [ret |-> None, scan |-> p, next |-> Len(s) + 1]
             ELSE IF b.pos + 1 > Len(s)
             THEN [ret |-> None, scan |-> p, next |-> Len(s) + 1]
             ELSE IF ~FcsMatches(b.fcs, s[b.pos], s[b.pos + 1])
             THEN [ret |-> None, scan |-> p, next |-> b.pos + 2]
             ELSE [ret |-> Some(b.data), scan |-> p, next |-> b.pos + 2]

recv_frame(s) == recv_frame_at(s).ret

(***************************************************************************)
(* The chunk loop of run_installer (lines 222-227): the chunks it hands to *)
(* send_lt_frame for the bytes of one package.                             *)
(***************************************************************************)
Min(a, b) == IF a <= b THEN a ELSE b

\* data[off:off+MAX_INFO_LEN], off counted from 0.
SliceMut(data, off) == SubSeq(data, off + 2, Min(off + MAX_INFO_LEN, Len(data)))

Slice(data, off) == SubSeq(data, off + 1, Min(off + MAX_INFO_LEN, Len(data)))

\* while len(chunk) % 4 != 0: chunk += b'\x00'
PadChunk[chunk \in Seq(Nat)] ==
  IF Len(chunk) % 4 # 0 THEN PadChunk[Append(chunk, 0)] ELSE chunk

\* The same two steps on lengths alone: len(data[i:i+MAX_INFO_LEN]) and the
\* length after padding.
SliceLen(len, off) == Min(len - off, MAX_INFO_LEN)

PaddedLen[n \in Nat] == IF n % 4 # 0 THEN PaddedLen[n + 1] ELSE n

\* The contents of a package of a given length: one byte repeated, or
\* bytes that change with the offset and are zero at some offsets.
PkgBytes(len, fill) ==
  [k \in 1..len |-> IF fill = "same" THEN 65 ELSE ((k - 1) * 7 + 3) % 256]

InitChunk ==
  /\ \E len \in 0..MaxPkgLen, fill \in {"same", "ramp"} : kdata = PkgBytes(len, fill)
  /\ ki = 0
  /\ koffs = <<>>
  /\ kchunks = <<>>
  /\ kdone = FALSE
  /\ CodecIdle
  /\ SessionIdle

\* One pass of the loop body: the chunk at offset i is cut, padded and sent.
ChunkStep ==
  /\ ~kdone
  /\ ki < Len(kdata)
  /\ kchunks' = Append(kchunks, PadChunk[Slice(kdata, ki)])
  /\ koffs' = Append(koffs, ki)
  /\ ki' = ki + MAX_INFO_LEN
  /\ UNCHANGED <<kdata, kdone>>
  /\ UNCHANGED <<cvars, svars>>

\* range(0, f_len, MAX_INFO_LEN) is exhausted.
ChunkEnd ==
  /\ ~kdone
  /\ ki >= Len(kdata)
  /\ kdone' = TRUE
  /\ UNCHANGED <<kdata, ki, koffs, kchunks>>
  /\ UNCHANGED <<cvars, svars>>

NextChunk == ChunkStep \/ ChunkEnd

SpecChunk == InitChunk /\ [][NextChunk]_vars

(***************************************************************************)
(* The codec on its own: send_frame's bytes, carried to a reader with      *)
(* noise before them, bytes after them, one byte replaced or stray bytes   *)
(* after an escape byte, and read by recv_frame; and fcs_calc called with  *)
(* a running value and a byte.                                             *)
(***************************************************************************)
Heads == SeqsUpTo(HeadBytes, MaxHead)

Infos == SeqsUpTo(InfoBytes, MaxInfo)

ContainsStart(s) ==
  \E k \in 1..(Len(s) - 2) : SubSeq(s, k, k + 2) = FRAME_START

Noises == {n \in SeqsUpTo(NoiseBytes, MaxNoise) : ~ContainsStart(n)}

\* Bytes that follow the frame in the stream: nothing, an ordinary byte, the
\* peer's next frame, or the same frame sent again.
Tails(wire) == {<<>>, <<65>>, send_frame(<<65>>, <<>>), wire}

\* Bytes put into the stream directly after an escape byte of the frame:
\* none of them is 0x10 or 0x03.
Strays == {<<0>>, <<22>>, <<65, 2>>}

\* Arguments fcs_calc is called with on its own: running values with few and
\* with many bits set, and every byte.
FcsWords == {0, 1, 255, 256, 4660, 21845, 32768, 40961, 43690, 65535}

Octets == 0..255

InitCodec ==
  /\ \/ /\ chead \in Heads
        /\ cinfo \in Infos
        /\ cphase = "idle"
        /\ FcsIdle
     \/ /\ chead = <<>>
        /\ cinfo = <<>>
        /\ cphase = "fcs"
        /\ fword \in FcsWords
        /\ foctet \in Octets
        /\ fout = -1
  /\ cstray = NoStray
  /\ cwire = <<>>
  /\ cnoise = <<>>
  /\ cedit = NoEdit
  /\ cstream = <<>>
  /\ cres = [ret |-> None, scan |-> 0, next |-> 1]
  /\ ChunkIdle
  /\ SessionIdle

CodecSend ==
  /\ cphase = "idle"
  /\ cwire' = send_frame(chead, cinfo)
  /\ cphase' = "sent"
  /\ UNCHANGED <<chead, cinfo, cnoise, cedit, cstream, cres>>
  /\ UNCHANGED <<cstray, fvars>>
  /\ UNCHANGED <<kvars, svars>>

CodecDeliver ==
  /\ cphase = "sent"
  /\ \E noise \in Noises, tail \in Tails(cwire) :
       /\ noise = <<>> \/ tail = <<>>
       /\ cnoise' = noise
       /\ cstream' = noise \o cwire \o tail
  /\ cphase' = "delivered"
  /\ UNCHANGED <<chead, cinfo, cwire, cedit, cres>>
  /\ UNCHANGED <<cstray, fvars>>
  /\ UNCHANGED <<kvars, svars>>

CodecCorrupt ==
  /\ cphase = "sent"
  /\ \E p \in 1..Len(cwire), v \in CorruptBytes, tail \in Tails(cwire) :
       /\ v # cwire[p]
       /\ cedit' = [pos |-> p, val |-> v]
       /\ cstream' = [cwire EXCEPT ![p] = v] \o tail
  /\ cphase' = "delivered"
  /\ UNCHANGED <<chead, cinfo, cwire, cnoise, cres>>
  /\ UNCHANGED <<cstray, fvars>>
  /\ UNCHANGED <<kvars, svars>>

CodecRecv ==
  /\ cphase = "delivered"
  /\ cres' = recv_frame_at(cstream)
  /\ cphase' = "received"
  /\ UNCHANGED <<chead, cinfo, cwire, cnoise, cedit, cstream>>
  /\ UNCHANGED <<cstray, fvars>>
  /\ UNCHANGED <<kvars, svars>>

\* The frame reaches the reader with stray bytes directly after one of its
\* 0x10 bytes.
CodecStray ==
  /\ cphase = "sent"
  /\ \E p \in (Len(FRAME_START) + 1)..(Len(cwire) - 3), junk \in Strays,
        tail \in {<<>>, <<65>>} :
       /\ cwire[p] = 16
       /\ cstray' = [pos |-> p, bytes |-> junk]
       /\ cstream' = SubSeq(cwire, 1, p) \o junk \o SubSeq(cwire, p + 1, Len(cwire)) \o tail
  /\ cphase' = "delivered"
  /\ UNCHANGED <<chead, cinfo, cwire, cnoise, cedit, cres, fvars>>
  /\ UNCHANGED <<kvars, svars>>

\* fcs_calc(fword, foctet) is called.
FcsCall ==
  /\ cphase = "fcs"
  /\ fout' = fcs_calc(fword, foctet)
  /\ cphase' = "fcsdone"
  /\ UNCHANGED <<chead, cinfo, cwire, cnoise, cedit, cstream, cres, cstray, fword, foctet>>
  /\ UNCHANGED <<kvars, svars>>

NextCodec == CodecSend \/ CodecDeliver \/ CodecCorrupt \/ CodecStray \/ CodecRecv \/ FcsCall

SpecCodec == InitCodec /\ [][NextCodec]_vars

(***************************************************************************)
(* The session: add_files, start_thread and the worker thread's way        *)
(* through run_installer. A step of the worker is one recv_frame, one      *)
(* frame written, or the statements between two of them.                   *)
(***************************************************************************)
\* The lengths of the packages queued: empty, two chunks, and enough chunks
\* to take the sequence counter round.
PkgLens == {0, 300, BigPkgLen}

Queues == {q \in SeqsUpTo(PkgLens, MaxFiles) : q # <<>>}

\* Frames the peer sends, as recv_frame returns them: byte 1 of a frame is
\* its type, byte 2 its sequence number.
LRIn == <<23, 1, 2>>

LAIn(s) == <<3, 5, s, 1>>

LTIn(s) == <<2, 4, s>>

\* The sequence byte of the dock frames the peer sends.
DockSeq == 7

\* What a recv_frame of the session may return: None (no byte in time, or a
\* bad checksum), frames of 0, 1 and 2 bytes, a connection request, a dock
\* frame, an acknowledgement of the awaited or of another sequence number,
\* and a frame of another type.
AnyResults ==
  {None, Some(<<>>), Some(<<3>>), Some(<<3, 5>>), Some(<<2, 4>>),
   Some(LRIn), Some(LTIn(DockSeq)), Some(<<1, 2, 0>>)}
    \cup {Some(LAIn(s)) : s \in {seq, (seq + 1) % 256} \cap 0..255}

\* What the cooperative peer sends: its connection request, the
\* acknowledgement of the frame awaited, and a dock frame when one is awaited.
CoopResults ==
  CASE pc = "req_recv" -> {Some(LRIn)}
    [] pc = "la_recv" -> {Some(LAIn(s)) : s \in {seq} \cap 0..255}
    [] OTHER -> {Some(LTIn(DockSeq))}

\* except Exception as e (237-238) and finally (239-240).
Fail(kind) ==
  /\ err' = kind
  /\ pc' = "done"
  /\ start_btn' = "normal"
  /\ workers' = workers - 1

\* add_files (248-252), while no session runs.
AddFiles ==
  /\ pc = "idle"
  /\ \E q \in Queues : file_list' = q
  /\ UNCHANGED <<port, lt_seq_no, start_btn, workers, pc, step, recv, seq, loopv, err, obsv>>
  /\ UNCHANGED <<cvars, kvars>>

\* The state line 260 gives the start button.
StartBtnStateMut == "normal"

StartBtnState == "disabled"

\* start_thread (258-261), for the first session of the installer. (The
\* button calls it only while its state is normal.)
StartThread ==
  /\ pc = "idle"
  /\ start_btn = "normal"
  /\ file_list # <<>>
  /\ start_btn' = StartBtnState
  /\ workers' = workers + 1
  /\ pc' = "start"
  /\ startseq' = lt_seq_no
  /\ UNCHANGED <<port, lt_seq_no, file_list, step, recv, seq, loopv, err>>
  /\ UNCHANGED <<lastw, lastlt, unacked, nacked, pend, sq, owed, rdin>>
  /\ UNCHANGED <<cvars, kvars>>

\* Lines 161-166: the port is opened, unless none is selected or
\* serial.Serial raises.
OpenPort ==
  /\ pc = "start"
  /\ \/ /\ port' = "open"
        /\ pc' = "req_recv"
        /\ UNCHANGED <<start_btn, err, workers>>
     \/ /\ Fail("port")
        /\ UNCHANGED port
  /\ UNCHANGED <<lt_seq_no, file_list, step, recv, seq, loopv, obsv>>
  /\ UNCHANGED <<cvars, kvars>>

\* recv = self.recv_frame() at lines 147, 169, 178, 189 and 207, returning
\* one of the results R.
RecvFrame(R) ==
  /\ pc \in {"req_recv", "la_recv", "dock_recv"}
  /\ \E r \in R :
       /\ recv' = r
       /\ pend' = IF pc = "la_recv" /\ r.ok /\ Len(r.data) >= 3 /\ r.data[2] = 4
                  THEN r.data[3] ELSE pend
       /\ owed' = IF pc # "req_recv" /\ r.ok /\ Len(r.data) >= 3 /\ r.data[2] = 4
                  THEN owed + 1 ELSE owed
  /\ rdin' = [at |-> pc, n |-> nacked]
  /\ pc' = CASE pc = "req_recv" -> "req_chk"
             [] pc = "la_recv" -> "la_chk"
             [] OTHER -> "dock_chk"
  /\ UNCHANGED <<objv, step, seq, loopv, err>>
  /\ UNCHANGED <<lastw, lastlt, unacked, nacked, startseq, sq>>
  /\ UNCHANGED <<cvars, kvars>>

\* self.port.read or self.port.write raises.
StreamFails ==
  /\ pc \in {"req_recv", "la_recv", "dock_recv", "lr_send", "la_ack", "dock_ack",
             "lt_send"}
  /\ Fail("stream")
  /\ UNCHANGED <<port, lt_seq_no, file_list, step, recv, seq, loopv, obsv>>
  /\ UNCHANGED <<cvars, kvars>>

\* Line 170: if recv and recv[1] == 0x01: break
ReqCheck ==
  /\ pc = "req_chk"
  /\ IF ~Truthy(recv)
     THEN pc' = "req_recv" /\ UNCHANGED <<start_btn, err, workers>>
     ELSE IF Len(recv.data) < 2
     THEN Fail("index")
     ELSE /\ pc' = IF recv.data[2] = 1 THEN "lr_send" ELSE "req_recv"
          /\ UNCHANGED <<start_btn, err, workers>>
  /\ UNCHANGED <<port, lt_seq_no, file_list, step, recv, seq, loopv, obsv>>
  /\ UNCHANGED <<cvars, kvars>>

\* Lines 173-174: send_frame(LR_FRAME), then wait_la_frame(self.lt_seq_no) is entered.
LrSend ==
  /\ pc = "lr_send"
  /\ lastw' = [head |-> LR_FRAME, info |-> NoInfo]
  /\ seq' = lt_seq_no
  /\ step' = "lr"
  /\ pc' = "la_recv"
  /\ sq' = [n |-> sq.n + 1, cmd |-> "LR", args |-> <<>>, pkg |-> 0]
  /\ UNCHANGED <<objv, recv, loopv, err>>
  /\ UNCHANGED <<lastlt, unacked, nacked, startseq, pend, owed, rdin>>
  /\ UNCHANGED <<cvars, kvars>>

\* The frame send_la_frame(s) writes (152-153).
LaFrameMut(s) == [head |-> <<3, 5, lt_seq_no % 256, 1>>, info |-> NoInfo]

LaFrame(s) == [head |-> <<3, 5, s, 1>>, info |-> NoInfo]

\* Whether wait_la_frame returns on the frame r (line 150).
EndsWaitMut(r, s) == r[2] = 5

EndsWait(r, s) == r[2] = 5 /\ r[3] = s

\* Whether wait_la_frame answers the frame r (line 149).
AcksInWaitMut(r) == FALSE

AcksInWait(r) == r[2] = 4

\* Lines 148-150 of wait_la_frame, up to a frame written or the return.
WaitLaCheck ==
  /\ pc = "la_chk"
  /\ IF ~Truthy(recv)
     THEN pc' = "la_recv" /\ UNCHANGED <<start_btn, err, workers>>
     ELSE IF Len(recv.data) < 2
     THEN Fail("index")
     ELSE IF recv.data[2] \in {4, 5} /\ Len(recv.data) < 3
     THEN Fail("index")
     ELSE /\ pc' = IF AcksInWait(recv.data) THEN "la_ack"
                   ELSE IF EndsWait(recv.data, seq) THEN "la_ret"
                   ELSE "la_recv"
          /\ UNCHANGED <<start_btn, err, workers>>
  /\ UNCHANGED <<port, lt_seq_no, file_list, step, recv, seq, loopv, obsv>>
  /\ UNCHANGED <<cvars, kvars>>

\* Line 149: self.send_la_frame(recv[2]); the frame is no 0x05, the loop goes on.
WaitLaAck ==
  /\ pc = "la_ack"
  /\ lastw' = LaFrame(recv.data[3])
  /\ pend' = IF lastw'.head = <<3, 5, pend, 1>> THEN -1 ELSE pend
  /\ pc' = "la_recv"
  /\ owed' = owed - 1
  /\ UNCHANGED <<objv, step, recv, seq, loopv, err>>
  /\ UNCHANGED <<lastlt, unacked, nacked, startseq, sq, rdin>>
  /\ UNCHANGED <<cvars, kvars>>

\* The sequence counter after an acknowledged frame: lines 175, 186, 204 and
\* 220 add 1, line 227 adds 1 modulo 256.
NextSeq(n, st) == IF st = "chunk" THEN (n + 1) % 256 ELSE n + 1

\* wait_la_frame has returned: the statements after it, up to the next read
\* or write (175; 186; 204; 220-222; 227-229).
Advance ==
  /\ pc = "la_ret"
  /\ lt_seq_no' = NextSeq(lt_seq_no, step)
  /\ nacked' = nacked + 1
  /\ unacked' = 0
  /\ CASE step = "lr" ->
            pc' = "dock_recv" /\ step' = "dock1" /\ UNCHANGED <<i, progress>>
       [] step = "dockdock" ->
            pc' = "dock_recv" /\ step' = "dock2" /\ UNCHANGED <<i, progress>>
       [] step = "stim" ->
            pc' = "dock_recv" /\ step' = "dock3" /\ UNCHANGED <<i, progress>>
       [] step = "lpkg" ->
            pc' = "chunk_next" /\ i' = 0 /\ UNCHANGED <<step, progress>>
       [] OTHER ->
            /\ pc' = "chunk_next"
            /\ progress' = [num |-> i * 100, den |-> f_len]
            /\ i' = i + MAX_INFO_LEN
            /\ UNCHANGED step
  /\ UNCHANGED <<port, file_list, start_btn, workers, recv, seq, files, fidx, f_len, err>>
  /\ UNCHANGED <<lastw, lastlt, startseq, pend, sq, owed, rdin>>
  /\ UNCHANGED <<cvars, kvars>>

\* Lines 179, 190 and 208: if recv and recv[1] == 0x04, up to send_la_frame(recv[2]).
DockCheck ==
  /\ pc = "dock_chk"
  /\ IF ~Truthy(recv)
     THEN pc' = "dock_recv" /\ UNCHANGED <<start_btn, err, workers>>
     ELSE IF Len(recv.data) < 2
     THEN Fail("index")
     ELSE IF recv.data[2] = 4 /\ Len(recv.data) < 3
     THEN Fail("index")
     ELSE /\ pc' = IF recv.data[2] = 4 THEN "dock_ack" ELSE "dock_recv"
          /\ UNCHANGED <<start_btn, err, workers>>
  /\ UNCHANGED <<port, lt_seq_no, file_list, step, recv, seq, loopv, obsv>>
  /\ UNCHANGED <<cvars, kvars>>

\* Lines 180-181, 191-200 and 209-212: the dock frame is acknowledged and the
\* loop left (the owner's name is only logged); after the third, the for
\* loop over self.file_list starts.
DockAck ==
  /\ pc = "dock_ack"
  /\ lastw' = LaFrame(recv.data[3])
  /\ CASE step = "dock1" ->
            pc' = "lt_send" /\ step' = "dockdock" /\ UNCHANGED <<files, fidx>>
       [] step = "dock2" ->
            pc' = "lt_send" /\ step' = "stim" /\ UNCHANGED <<files, fidx>>
       [] OTHER ->
            pc' = "file_next" /\ files' = file_list /\ fidx' = 0 /\ UNCHANGED step
  /\ owed' = owed - 1
  /\ UNCHANGED <<objv, recv, seq, f_len, i, progress, err>>
  /\ UNCHANGED <<lastlt, unacked, nacked, startseq, pend, sq, rdin>>
  /\ UNCHANGED <<cvars, kvars>>

\* The payload of the frame send_lt_frame is called with (184, 202, 217, 225, 233).
LtInfo ==
  CASE step = "dockdock" -> [cmd |-> "newtdockdock", args |-> <<4, 4>>]
    [] step = "stim" -> [cmd |-> "newtdockstim", args |-> <<4, 30>>]
    [] step = "lpkg" -> [cmd |-> "newtdocklpkg", args |-> <<f_len>>]
    [] step = "chunk" -> [cmd |-> "chunk", args |-> <<i, PaddedLen[SliceLen(f_len, i)]>>]
    [] OTHER -> [cmd |-> "newtdockdisc", args |-> <<0>>]

\* Whether wait_la_frame follows the send_lt_frame of a step: it does at
\* lines 185, 203, 219 and 226, and not after line 233.
AwaitsAckMut(st) == TRUE

AwaitsAck(st) == st # "disc"

\* send_lt_frame (155-156): bytes([0x02, 0x04, self.lt_seq_no]) raises
\* ValueError unless the counter is in 0..255. After every frame but the
\* disconnect frame, wait_la_frame(self.lt_seq_no) is entered.
LtSend ==
  /\ pc = "lt_send"
  /\ IF lt_seq_no \notin 0..255
     THEN /\ Fail("value")
          /\ UNCHANGED <<seq, lastw, lastlt, unacked, sq>>
     ELSE /\ lastw' = [head |-> <<2, 4, lt_seq_no>>, info |-> LtInfo]
          /\ lastlt' = <<2, 4, lt_seq_no>>
          /\ unacked' = unacked + 1
          /\ sq' = [n |-> sq.n + 1, cmd |-> LtInfo.cmd, args |-> LtInfo.args,
                    pkg |-> fidx]
          /\ IF ~AwaitsAck(step)
             THEN pc' = "close" /\ UNCHANGED seq
             ELSE pc' = "la_recv" /\ seq' = lt_seq_no
          /\ UNCHANGED <<start_btn, err, workers>>
  /\ UNCHANGED <<port, lt_seq_no, file_list, step, recv, loopv>>
  /\ UNCHANGED <<nacked, startseq, pend, owed, rdin>>
  /\ UNCHANGED <<cvars, kvars>>

\* Lines 212-217: the next package is opened and read, or open raises; with
\* no package left, line 233 follows.
FileNext ==
  /\ pc = "file_next"
  /\ IF fidx < Len(files)
     THEN \/ /\ fidx' = fidx + 1
             /\ f_len' = files[fidx + 1]
             /\ step' = "lpkg"
             /\ pc' = "lt_send"
             /\ UNCHANGED <<start_btn, err, workers>>
          \/ /\ Fail("file")
             /\ UNCHANGED <<fidx, f_len, step>>
     ELSE /\ step' = "disc"
          /\ pc' = "lt_send"
          /\ UNCHANGED <<fidx, f_len, start_btn, err, workers>>
  /\ UNCHANGED <<port, lt_seq_no, file_list, recv, seq, files, i, progress, obsv>>
  /\ UNCHANGED <<cvars, kvars>>

\* Whether range(0, f_len, MAX_INFO_LEN) holds the offset off.
MoreChunksMut(off, len) == off + MAX_INFO_LEN < len

MoreChunks(off, len) == off < len

\* Line 222: for i in range(0, f_len, MAX_INFO_LEN).
ChunkNext ==
  /\ pc = "chunk_next"
  /\ IF MoreChunks(i, f_len)
     THEN pc' = "lt_send" /\ step' = "chunk"
     ELSE pc' = "file_next" /\ UNCHANGED step
  /\ UNCHANGED <<objv, recv, seq, loopv, err, obsv>>
  /\ UNCHANGED <<cvars, kvars>>

\* Lines 234-240: self.port.close(), then finally.
ClosePort ==
  /\ pc = "close"
  /\ port' = "closed"
  /\ pc' = "done"
  /\ start_btn' = "normal"
  /\ workers' = workers - 1
  /\ UNCHANGED <<lt_seq_no, file_list, step, recv, seq, loopv, err, obsv>>
  /\ UNCHANGED <<cvars, kvars>>

Init == SessionIdle /\ CodecIdle /\ ChunkIdle

\* The steps of the worker that depend on nothing but the installer.
WorkerSteps ==
  \/ ReqCheck \/ LrSend \/ WaitLaCheck \/ Advance
  \/ DockCheck \/ DockAck \/ LtSend \/ ChunkNext \/ ClosePort

Next ==
  \/ AddFiles \/ StartThread \/ OpenPort \/ RecvFrame(AnyResults) \/ StreamFails
  \/ WaitLaAck \/ FileNext \/ WorkerSteps

Spec == Init /\ [][Next]_vars

\* The session with the cooperative peer: the port opens, every read
\* returns the frame the peer owes (so no dock frame arrives inside
\* wait_la_frame), no read or write raises and every package file can be
\* read. The worker thread keeps running while it has a step to take.
OpenPortCoop == OpenPort /\ port' = "open"

FileNextCoop == FileNext /\ err' = "none"

WorkerCoop == OpenPortCoop \/ RecvFrame(CoopResults) \/ FileNextCoop \/ WorkerSteps

NextCoop == AddFiles \/ StartThread \/ WorkerCoop

SpecCoop == Init /\ [][NextCoop]_vars /\ WF_vars(WorkerCoop)

(***************************************************************************)
(* Session after session on the same installer, with the cooperative peer, *)
(* a port or a package file that may fail, and add_files at any moment.    *)
(***************************************************************************)
\* The queues add_files sets here: one package of two chunks, or one of 251.
AgainQueues == {<<300>>, <<BigPkgLen>>}

\* add_files (248-252), whether or not a session runs.
AddFilesAny ==
  /\ \E q \in AgainQueues : file_list' = q
  /\ UNCHANGED <<port, lt_seq_no, start_btn, workers, pc, step, recv, seq, loopv, err, obsv>>
  /\ UNCHANGED <<cvars, kvars>>

\* start_thread (258-261) after the first session: a new thread runs
\* run_installer on the same object, whose port, lt_seq_no and file_list
\* are as the sessions before left them; its locals and what the observer
\* recorded start anew.
StartAgain ==
  /\ pc # "idle"
  /\ start_btn = "normal"
  /\ file_list # <<>>
  /\ start_btn' = StartBtnState
  /\ workers' = workers + 1
  /\ pc' = "start"
  /\ step' = "none"
  /\ recv' = None
  /\ seq' = 0
  /\ files' = <<>>
  /\ fidx' = 0
  /\ f_len' = 0
  /\ i' = 0
  /\ err' = "none"
  /\ lastw' = NoFrame
  /\ lastlt' = <<>>
  /\ unacked' = 0
  /\ nacked' = 0
  /\ startseq' = lt_seq_no
  /\ pend' = -1
  /\ sq' = NoSeqFrame
  /\ owed' = 0
  /\ rdin' = NoRead
  /\ UNCHANGED <<port, lt_seq_no, file_list, progress>>
  /\ UNCHANGED <<cvars, kvars>>

NextAgain ==
  \/ AddFilesAny \/ StartThread \/ StartAgain \/ OpenPort \/ RecvFrame(CoopResults)
  \/ FileNext \/ WorkerSteps

SpecAgain == Init /\ [][NextAgain]_vars

(***************************************************************************)
(* Claims about the codec, checked under SpecCodec.                        *)
(***************************************************************************)
\* The edit replaced a byte of the wire frame that carries a header or
\* payload byte other than the escape byte, by a value other than the escape byte.
PlainBodyEdit ==
  /\ cedit.pos >= Len(FRAME_START) + 1
  /\ cedit.pos <= Len(cwire) - Len(FRAME_END) - 2
  /\ cwire[cedit.pos] # 16
  /\ cedit.val # 16

\* The edit replaced a byte of the start marker or of the end marker.
MarkerEdit ==
  \/ cedit.pos \in 1..Len(FRAME_START)
  \/ cedit.pos \in (Len(cwire) - Len(FRAME_END) - 1)..(Len(cwire) - 2)

\* C1: the bytes send_frame(head, info) writes, read by recv_frame from the
\* start of a stream (whatever follows them), give back exactly head
\* followed by info.
C1_RoundTrip ==
  (cphase = "received" /\ cedit = NoEdit /\ cstray = NoStray /\ cnoise = <<>>)
    => cres.ret = Some(chead \o cinfo)

\* C1 witness: a frame whose header holds the escape byte and the terminator
\* and whose payload is the escape byte has made the round trip.
C1_Witness ==
  /\ cphase = "received" /\ cedit = NoEdit /\ cstray = NoStray /\ cnoise = <<>>
  /\ chead = <<16, 3>> /\ cinfo = <<16>>
  /\ Len(cstream) > Len(cwire)
  /\ cres.ret = Some(<<16, 3, 16>>)

\* C2 as claimed: with any single byte outside the two checksum bytes
\* replaced, recv_frame returns no frame, whatever bytes follow the frame.
C2_Claimed ==
  (cphase = "received" /\ cedit.pos >= 1 /\ cedit.pos <= Len(cwire) - 2)
    => cres.ret = None

\* C2 as amended: recv_frame returns None when a byte that carries a header
\* or payload byte other than 0x10 is replaced by a different value other
\* than 0x10, whatever bytes follow the frame, and when a byte of the start
\* or end marker is replaced and no byte follows the frame.
C2_Amended ==
  /\ (cphase = "received" /\ PlainBodyEdit) => cres.ret = None
  /\ (cphase = "received" /\ MarkerEdit /\ Len(cstream) = Len(cwire))
       => cres.ret = None

\* C2 witness: such a replacement was made in a frame followed by further
\* bytes, and recv_frame read up to the checksum and returned None.
C2_Witness ==
  /\ cphase = "received" /\ PlainBodyEdit
  /\ Len(cstream) > Len(cwire)
  /\ cres.next = Len(cwire) + 1
  /\ cres.ret = None

\* C10 as claimed: with noise that holds no complete start marker before a
\* well-formed frame, recv_frame ends its scan right after the first
\* 0x16 0x10 0x02 of the stream and returns that frame.
C10_Claimed ==
  (cphase = "received" /\ cedit = NoEdit /\ cstray = NoStray)
    => /\ cres.scan = Len(cnoise) + Len(FRAME_START) + 1
       /\ cres.ret = Some(chead \o cinfo)

\* The reference update of the CRC with polynomial 0xA001, least-significant
\* bit first: the byte is added to the low bits of the running value, which
\* is then shifted right eight times, 0xA001 added after each shift that
\* drops a 1.
RefShift[k \in 0..8, x \in Nat] ==
  IF k = 0 THEN x
  ELSE RefShift[k - 1, IF x % 2 = 1 THEN Xor[x \div 2, 40961] ELSE x \div 2]

RefUpdate(w, b) == RefShift[8, Xor[w, b]]

RefOver[w \in Nat, s \in Seq(Nat)] ==
  IF s = <<>> THEN w ELSE RefOver[RefUpdate(w, Head(s)), Tail(s)]

\* C17: fcs_calc gives what the reference update gives, a value in
\* 0..65535 (and 0xBB3D for the bytes "123456789" from 0); the last two
\* bytes send_frame writes are the reference checksum, low byte first, of
\* the header and payload bytes, each once, followed by 0x03; and what
\* recv_frame has accumulated when a body ends (in a stream that starts
\* with the frame, as sent or with stray bytes after an escape byte) is
\* the reference checksum of the bytes it stored followed by 0x03, which a
\* frame it returns carries low byte first.
C17_Checksum ==
  /\ (cphase = "fcsdone")
       => (fout = RefUpdate(fword, foctet) /\ fout \in 0..65535)
  /\ (cphase = "fcsdone" /\ fword = 0)
       => FcsOver[0, <<49, 50, 51, 52, 53, 54, 55, 56, 57>>] = 47933
  /\ (cphase = "sent")
       => LET c == RefOver[0, chead \o cinfo \o <<3>>]
          IN SubSeq(cwire, Len(cwire) - 1, Len(cwire)) = <<c % 256, c \div 256>>
  /\ (cphase = "received" /\ cres.scan > 0 /\ cnoise = <<>> /\ cedit = NoEdit)
       => LET b == DecodeBody[cstream, cres.scan, 0, 0, <<>>]
          IN b.ok => /\ b.fcs = RefOver[0, b.data \o <<3>>]
                     /\ cres.ret # None
                          => (cstream[b.pos] = b.fcs % 256 /\ cstream[b.pos + 1] = b.fcs \div 256)

\* C17 witness: fcs_calc has been called with a running value that has its
\* top and bottom bits set and a byte with one bit set, and has returned 0x0C60.
C17_Witness ==
  /\ cphase = "fcsdone"
  /\ fword = 40961
  /\ foctet = 16
  /\ fout = 3168

\* The number of 0x10 bytes that directly precede position p in the body of
\* the wire frame w.
RunBefore[w \in Seq(Nat), p \in Nat] ==
  IF p <= Len(FRAME_START) + 1 \/ w[p - 1] # 16 THEN 0 ELSE 1 + RunBefore[w, p - 1]

\* The byte at position p of the wire frame w is a 0x10 that recv_frame
\* reads as an escape byte: the first of a doubled 0x10, or that of the end marker.
EscapeRead(w, p) == w[p] = 16 /\ RunBefore[w, p] % 2 = 0

\* The stream holds the frame with the 0x03 of its end marker replaced by
\* another byte than 0x10, and then the frame once more.
FrameRunsOn ==
  /\ cedit.pos = Len(cwire) - 2
  /\ cedit.val # 16
  /\ Len(cstream) = 2 * Len(cwire)

\* C20: bytes other than 0x10 and 0x03 that follow an escape byte of a
\* frame are dropped: recv_frame returns the frame as sent, having read to
\* the end of its checksum, so they were neither stored nor added to the
\* checksum, and the 0x10 or 0x03 after them was taken as the doubled 0x10
\* or the end of the frame. At the position of each stray byte, the body
\* loop in the escape state goes on as it would from the next position.
\* The body decoded is the one after the first start marker: a frame that
\* runs on into a second one is not given up for the second.
C20_EscapeDrop ==
  /\ (cphase = "received" /\ cstray.pos > 0 /\ EscapeRead(cwire, cstray.pos))
       => /\ cres.ret = Some(chead \o cinfo)
          /\ cres.next = Len(cwire) + Len(cstray.bytes) + 1
  /\ (cphase = "received" /\ cstray.pos > 0)
       => \A p \in (cstray.pos + 1)..(cstray.pos + Len(cstray.bytes)) :
            cstream[p] \notin {16, 3}
              => DecodeBody[cstream, p, 1, 4660, <<65>>]
                   = DecodeBody[cstream, p + 1, 1, 4660, <<65>>]
  /\ (cphase = "received" /\ FrameRunsOn)
       => /\ cres.scan = Len(FRAME_START) + 1
          /\ cres.next > Len(cwire)
          /\ cres.ret # Some(chead \o cinfo)

\* C20 witness: two stray bytes came after the first 0x10 of a doubled 0x10
\* in the header, and recv_frame returned the header as sent.
C20_Witness ==
  /\ cphase = "received"
  /\ chead = <<16, 65>>
  /\ cinfo = <<>>
  /\ cstray = [pos |-> 4, bytes |-> <<65, 2>>]
  /\ cstream = <<22, 16, 2, 16, 65, 2, 16, 65, 16, 3, cwire[9], cwire[10]>>
  /\ cres.ret = Some(<<16, 65>>)

(***************************************************************************)
(* Claims about the chunk loop, checked under SpecChunk.                   *)
(***************************************************************************)
\* The bytes of the package that chunk number j carries, without its padding.
RawLen(j) == Min(MAX_INFO_LEN, Len(kdata) - koffs[j])

Unpadded[j \in Nat] ==
  IF j = 0 THEN <<>> ELSE Unpadded[j - 1] \o SubSeq(kchunks[j], 1, RawLen(j))

\* C6: a package of length L is sent as ceil(L/256) chunks at offsets 0, 256,
\* 512, ...; every chunk is at most 256 bytes long, a multiple of 4, and is
\* data[i:i+256] followed by fewer than 4 zero bytes and nothing else; the
\* unpadded prefixes, concatenated, are the package (L = 257: the second
\* chunk is the last byte and three zeros; L = 300: chunks of 256 and 44).
C6_Chunking ==
  LET L == Len(kdata)
      n == Len(kchunks)
  IN /\ Len(koffs) = n
     /\ kdone => n = (L + MAX_INFO_LEN - 1) \div MAX_INFO_LEN
     /\ \A j \in 1..n :
          /\ koffs[j] = (j - 1) * MAX_INFO_LEN
          /\ Len(kchunks[j]) % 4 = 0
          /\ Len(kchunks[j]) <= MAX_INFO_LEN
          /\ RawLen(j) >= 1
          /\ Len(kchunks[j]) - RawLen(j) \in 0..3
          /\ \A k \in 1..RawLen(j) : kchunks[j][k] = kdata[koffs[j] + k]
          /\ \A k \in (RawLen(j) + 1)..Len(kchunks[j]) : kchunks[j][k] = 0
          /\ Len(kchunks[j]) = PaddedLen[SliceLen(L, koffs[j])]
     /\ kdone => Unpadded[n] = kdata
     /\ (kdone /\ L = 257) => kchunks[2] = <<kdata[257], 0, 0, 0>>
     /\ (kdone /\ L = 300) => (Len(kchunks[1]) = 256 /\ Len(kchunks[2]) = 44)

\* C6 witness: a package of 257 bytes that change with the offset has been
\* sent as a full chunk and a chunk of its last byte and three zeros.
C6_Witness ==
  /\ kdone
  /\ Len(kdata) = 257
  /\ kdata[257] # 65
  /\ Len(kchunks) = 2
  /\ Len(kchunks[1]) = 256
  /\ kchunks[2] = <<kdata[257], 0, 0, 0>>

(***************************************************************************)
(* Claims about the session, checked under Spec and SpecCoop.              *)
(***************************************************************************)
SessionClosedOk ==
  /\ pc = "done"
  /\ err = "none"
  /\ port = "closed"
  /\ lastw.info.cmd = "newtdockdisc"

\* C3 as claimed: with the cooperative peer, a started run_installer
\* eventually sends the disconnect frame and closes the port without an
\* error, for any queue of one or more packages of any sizes.
C3_Claimed == (pc = "start") ~> SessionClosedOk

\* C4: a dock frame (type 0x04, with its sequence byte s) read while
\* wait_la_frame waits is answered with the frame [0x03, 0x05, s, 0x01]
\* before wait_la_frame reads another frame or returns: while such a frame is
\* unanswered the worker is between that read and the write of its answer,
\* or the write has raised and ended the session.
C4_DockAnswered ==
  /\ (pend # -1) =>
       \/ pc \in {"la_chk", "la_ack"} /\ recv = Some(LTIn(pend))
       \/ pc = "done" /\ err = "stream"
  /\ (pc = "la_ack") => pend = recv.data[3]

\* C4 witness: inside the wait for a chunk's acknowledgement a dock frame
\* was read and answered with its own sequence byte, which differs from the
\* session's counter, and the wait goes on.
C4_Witness ==
  /\ pc = "la_recv"
  /\ step = "chunk"
  /\ recv = Some(LTIn(DockSeq))
  /\ lastw = [head |-> <<3, 5, DockSeq, 1>>, info |-> NoInfo]
  /\ pend = -1
  /\ lt_seq_no # DockSeq

\* C5 as claimed: the sequence counter always lies in 0..255 and equals its
\* value at the start of the session plus the number of acknowledged frames,
\* modulo 256.
C5_Claimed ==
  /\ lt_seq_no \in 0..255
  /\ lt_seq_no = (startseq + nacked) % 256

\* C7 as claimed: when run_installer has ended after opening the port, the
\* port has been closed.
C7_Claimed == (pc = "done" /\ port # "none") => port = "closed"

\* C8 as claimed: a session ends as failed only on a failure of the stream
\* (or of the port or a package file), never on a frame that was received.
C8_Claimed == (pc = "done" /\ err # "none") => err \in {"stream", "port", "file"}

\* What holds of a return of wait_la_frame and of the frames send_lt_frame
\* has written.
C9_State ==
  /\ (pc = "la_ret") =>
       /\ recv.ok
       /\ Len(recv.data) >= 3
       /\ recv.data[2] = 5
       /\ recv.data[3] = seq
  /\ (pc = "la_ret" /\ step # "lr") => (lastlt = <<2, 4, seq>> /\ unacked = 1)
  /\ (pc = "lt_send") => unacked = 0
  /\ unacked <= 1

\* C9: wait_la_frame(seq) returns only on a frame of type 0x05 whose
\* sequence byte is seq, which is the sequence byte of the one frame
\* send_lt_frame wrote since the last return; send_lt_frame writes only when
\* no frame is unacknowledged, so at most one is at any time; and the
\* sequence counter changes only when wait_la_frame has returned.
C9_StopAndWait ==
  /\ []C9_State
  /\ [][lt_seq_no' # lt_seq_no => pc = "la_ret"]_vars

\* C9 witness: the wait for a chunk's acknowledgement has returned after an
\* acknowledgement of another sequence number was read and passed over.
C9_Witness ==
  /\ pc = "la_ret"
  /\ step = "chunk"
  /\ seq = 255
  /\ recv = Some(LAIn(255))
  /\ lastlt = <<2, 4, 255>>
  /\ unacked = 1

\* C11 as claimed: when a chunk of a package of length L > 0 has been
\* acknowledged, the progress value is 100 times the bytes of the package
\* sent so far, the chunk just acknowledged included, divided by L (so it is
\* 100 after the final chunk).
C11_Claimed ==
  (pc = "chunk_next" /\ step = "chunk")
    => progress.num * f_len = 100 * Min(i, f_len) * progress.den

\* The sequenced frame due after package number k of the loop is done: the
\* newtdocklpkg frame of the next package with its length, or the
\* disconnect frame after the last.
NextPkgOrDisc(k) ==
  IF k < Len(files)
  THEN [cmd |-> "newtdocklpkg", args |-> <<files[k + 1]>>, pkg |-> k + 1]
  ELSE [cmd |-> "newtdockdisc", args |-> <<0>>, pkg |-> k]

ChunkAt(off, L, k) ==
  [cmd |-> "chunk", args |-> <<off, PaddedLen[Min(L - off, MAX_INFO_LEN)]>>, pkg |-> k]

\* The sequenced frame due after the sequenced frame a.
DueAfter(a) ==
  CASE a.n = 0 -> [cmd |-> "LR", args |-> <<>>, pkg |-> 0]
    [] a.cmd = "LR" -> [cmd |-> "newtdockdock", args |-> <<4, 4>>, pkg |-> 0]
    [] a.cmd = "newtdockdock" -> [cmd |-> "newtdockstim", args |-> <<4, 30>>, pkg |-> 0]
    [] a.cmd = "newtdockstim" -> NextPkgOrDisc(0)
    [] a.cmd = "newtdocklpkg" ->
         IF a.args[1] > 0 THEN ChunkAt(0, a.args[1], a.pkg) ELSE NextPkgOrDisc(a.pkg)
    [] a.cmd = "chunk" ->
         IF a.args[1] + MAX_INFO_LEN < files[a.pkg]
         THEN ChunkAt(a.args[1] + MAX_INFO_LEN, files[a.pkg], a.pkg)
         ELSE NextPkgOrDisc(a.pkg)
    [] OTHER -> [cmd |-> "", args |-> <<>>, pkg |-> 0]

IsRequest(r) == r.ok /\ Len(r.data) >= 2 /\ r.data[2] = 1

\* C12: nothing is written before a frame of type 0x01 has been read, and a
\* frame of another type read before it is passed over with nothing written;
\* the sequenced frames are then written in this order in every run: the
\* capability frame, newtdockdock, newtdockstim, then for each package of
\* the queue, in queue order, newtdocklpkg with its length followed by its
\* chunks at offsets 0, 256, ... up to its length, then newtdockdisc, after
\* which none is written; a session that closes without error has written
\* them all.
C12_HandshakeOrder ==
  /\ [](sq.n = 0 => lastw = NoFrame)
  /\ [](pc \in {"start", "req_recv", "req_chk"} => sq.n = 0)
  /\ [][(sq.n = 0 /\ sq'.n # 0) => IsRequest(recv)]_vars
  /\ [][(pc = "req_chk" /\ ~IsRequest(recv))
         => (lastw' = lastw /\ sq' = sq /\ pc' \in {"req_recv", "done"})]_vars
  /\ [][files' # files => files' = file_list]_vars
  /\ [][sq' # sq
         => /\ sq.cmd # "newtdockdisc"
            /\ sq'.n = sq.n + 1
            /\ [cmd |-> sq'.cmd, args |-> sq'.args, pkg |-> sq'.pkg] = DueAfter(sq)]_vars
  /\ [](SessionClosedOk => (sq.cmd = "newtdockdisc" /\ sq.pkg = Len(files)))

\* C12 witness: a session with a queue of a two-chunk package and an empty
\* one has closed after its ten sequenced frames.
C12_Witness ==
  /\ SessionClosedOk
  /\ files = <<300, 0>>
  /\ sq = [n |-> 8, cmd |-> "newtdockdisc", args |-> <<0>>, pkg |-> 2]

\* recv_frame has just returned None to one of the loops of the session.
FailedRead == pc \in {"req_chk", "la_chk", "dock_chk"} /\ recv = None

\* The recv_frame call of the loop the worker is in.
ReadOf(p) ==
  CASE p = "req_chk" -> "req_recv" [] p = "la_chk" -> "la_recv" [] OTHER -> "dock_recv"

\* C13: when recv_frame has returned None (no byte in time, or a checksum
\* that does not match), the next step of the session is the next
\* recv_frame call of the same loop: no frame is written, the sequence
\* counter is unchanged, and the session is in the same step, without error.
C13_FailedDecode ==
  [][FailedRead
       => /\ pc' = ReadOf(pc)
          /\ lastw' = lastw
          /\ sq' = sq
          /\ owed' = owed
          /\ lt_seq_no' = lt_seq_no
          /\ step' = step
          /\ seq' = seq
          /\ nacked' = nacked
          /\ unacked' = unacked
          /\ err' = err
          /\ port' = port]_vars

\* C13 witness: inside the wait for a chunk's acknowledgement recv_frame
\* returned None and the wait is at its next recv_frame call, the chunk
\* still the last frame written.
C13_Witness ==
  /\ pc = "la_recv"
  /\ recv = None
  /\ rdin = [at |-> "la_recv", n |-> nacked]
  /\ step = "chunk"
  /\ unacked = 1
  /\ lastw.info.cmd = "chunk"
  /\ lastw.head = <<2, 4, lt_seq_no>>

DiscFrame(s) ==
  [head |-> <<2, 4, s>>, info |-> [cmd |-> "newtdockdisc", args |-> <<0>>]]

\* The last chunk of the last package has just been acknowledged.
LastChunkAcked ==
  /\ pc = "chunk_next" /\ step = "chunk"
  /\ fidx = Len(files) /\ f_len > 0 /\ i >= f_len

\* The session from there on: the two loops end, the disconnect frame is
\* written, the port is closed, run_installer ends.
AfterLastChunk ==
  /\ fidx = Len(files) /\ f_len > 0 /\ i >= f_len
  /\ \/ pc \in {"chunk_next", "file_next"} /\ step = "chunk"
     \/ pc \in {"lt_send", "close", "done"} /\ step = "disc"

\* C14: once the last chunk of the last package has been acknowledged the
\* sequence counter is in 0..255 and stays as it is, no recv_frame is
\* called any more, the one frame written is the disconnect frame with the
\* counter as its sequence byte, directly followed by the close of the
\* port, nothing is written after it, and the session does reach its end
\* with the port closed, whatever the peer does.
C14_Disconnect ==
  /\ [](AfterLastChunk => lt_seq_no \in 0..255)
  /\ [][AfterLastChunk
         => (AfterLastChunk' /\ recv' = recv /\ rdin' = rdin /\ lt_seq_no' = lt_seq_no)]_vars
  /\ [][(AfterLastChunk /\ lastw' # lastw)
         => (lastw' = DiscFrame(lt_seq_no) /\ pc' = "close")]_vars
  /\ [][(pc \in {"close", "done"}) => (lastw' = lastw /\ sq' = sq)]_vars
  /\ [](pc = "close" => lastw = DiscFrame(lt_seq_no))
  /\ LastChunkAcked ~> (SessionClosedOk /\ lastw = DiscFrame(lt_seq_no))

\* C14 witness: a session whose counter went round during its last package
\* has written the disconnect frame with the counter's value and closed the port.
C14_Witness ==
  /\ AfterLastChunk
  /\ SessionClosedOk
  /\ files = <<300, BigPkgLen>>
  /\ lt_seq_no = 2
  /\ lastw = DiscFrame(2)

(***************************************************************************)
(* Claims about session after session, checked under SpecAgain.            *)
(***************************************************************************)
\* The steps of run_installer up to the third dock frame (lines 168-210).
HandshakeSteps == {"none", "lr", "dock1", "dockdock", "dock2", "stim", "dock3"}

\* C15 as claimed: in every session on the same installer, the first or a
\* later one, the sequence counter is at most 255 all through the
\* handshake, its three increments without reduction included.
C15_Claimed ==
  (pc \notin {"idle", "done"} /\ step \in HandshakeSteps) => lt_seq_no <= 255

\* C16: at most one run_installer thread exists at any time, and exactly
\* while the start button is disabled; start_thread launches one only when
\* none exists, the session before (if any) having ended, and only with a
\* queue that is not empty, which the queue then stays.
C16_OneWorker ==
  /\ [](workers \in 0..1)
  /\ [](workers = 1 <=> pc \notin {"idle", "done"})
  /\ [](workers = 1 <=> start_btn = "disabled")
  /\ [](pc # "idle" => file_list # <<>>)
  /\ [][workers' > workers
         => /\ workers = 0
            /\ pc \in {"idle", "done"}
            /\ file_list # <<>>
            /\ pc' = "start"]_vars

\* C16 witness: a second session, started after the first failed on its
\* first package file, is the one worker and is in its handshake.
C16_Witness ==
  /\ workers = 1
  /\ start_btn = "disabled"
  /\ startseq = 3
  /\ pc = "lt_send"
  /\ step = "dockdock"
  /\ lt_seq_no = 4

(***************************************************************************)
(* Claims about dock frames and their answers, checked under Spec.         *)
(***************************************************************************)
\* A correctly decoded dock frame of at least 3 bytes.
IsDock(r) == r.ok /\ Len(r.data) >= 3 /\ r.data[2] = 4

\* The worker is in one of the loops that wait for a dock frame (177-181,
\* 188-200, 206-210).
InDockLoop ==
  step \in {"dock1", "dock2", "dock3"} /\ pc \in {"dock_recv", "dock_chk", "dock_ack"}

\* C18: every dock frame of at least 3 bytes read after the connection
\* request is answered once, by the next frame written and before the next
\* read (unless that write fails), and no answer is written otherwise; one
\* read inside wait_la_frame is answered there and the wait goes on in the
\* same step; a loop that waits for a dock frame is left only on a dock
\* frame that its own recv_frame call returned, after wait_la_frame returned.
C18_DockConsumed ==
  /\ [](owed \in 0..1)
  /\ [](owed = 1 => \/ pc \in {"la_chk", "la_ack", "dock_chk", "dock_ack"} /\ IsDock(recv)
                    \/ pc = "done" /\ err = "stream")
  /\ [](pc \in {"la_recv", "la_ret", "dock_recv", "lt_send"} => owed = 0)
  /\ [][owed' < owed => (IsDock(recv) /\ lastw' = LaFrame(recv.data[3]))]_vars
  /\ [][(lastw' # lastw /\ lastw'.head # <<>> /\ lastw'.head[1] = 3) => owed' < owed]_vars
  /\ [][(pc = "la_ack")
         => \/ pc' = "la_recv" /\ step' = step /\ nacked' = nacked /\ sq' = sq
            \/ pc' = "done" /\ err' = "stream"]_vars
  /\ [][(InDockLoop /\ ~InDockLoop' /\ pc' # "done")
         => /\ pc = "dock_ack"
            /\ IsDock(recv)
            /\ rdin = [at |-> "dock_recv", n |-> nacked]]_vars

\* C18 witness: a dock frame read inside the wait for the capability
\* frame's acknowledgement was answered there, the wait has returned, and
\* the loop of lines 177-181 still waits for a dock frame of its own.
C18_Witness ==
  /\ pc = "dock_recv"
  /\ step = "dock1"
  /\ nacked = 1
  /\ lastw = LaFrame(DockSeq)
  /\ owed = 0
  /\ rdin = [at |-> "la_recv", n |-> 0]
  /\ recv = Some(LAIn(0))

\* C19: the step that answers a dock frame writes the frame
\* [0x03, 0x05, s, 0x01] with s the sequence byte of the dock frame read,
\* and leaves the sequence counter as it is; the counter changes only in
\* the step that follows a return of wait_la_frame, which returned on the
\* acknowledgement of the one frame the session had sent and not yet seen
\* acknowledged, and it does change there.
C19_AckKeepsCounter ==
  /\ [][(pc \in {"la_ack", "dock_ack"})
         => /\ lt_seq_no' = lt_seq_no
            /\ nacked' = nacked
            /\ owed' < owed => lastw'.head = <<3, 5, recv.data[3], 1>>]_vars
  /\ [][lt_seq_no' # lt_seq_no
         => /\ pc = "la_ret"
            /\ owed = 0
            /\ recv = Some(LAIn(seq))
            /\ sq.n = nacked + 1
            /\ sq.cmd # "LR" => (lastlt = <<2, 4, seq>> /\ seq = lt_seq_no)]_vars
  /\ [][(pc = "la_ret") => lt_seq_no' # lt_seq_no]_vars

\* C19 witness: the first dock frame, with sequence byte 7, has been
\* answered with that byte while the session's counter is 1, and the
\* counter is still 1.
C19_Witness ==
  /\ pc = "lt_send"
  /\ step = "dockdock"
  /\ recv = Some(LTIn(DockSeq))
  /\ lastw = [head |-> <<3, 5, DockSeq, 1>>, info |-> NoInfo]
  /\ lt_seq_no = 1
  /\ DockSeq # lt_seq_no

====
